---- MODULE Spec2Model ----
(***************************************************************************)
(* Model of the quipubase document API: the request handler of qapi.py     *)
(* (create_app._), the record class it compiles from the request's schema  *)
(* (qschemas.create_model_from_json_schema), the QDocument operations of   *)
(* qdoc.py, and the per-class Quipu store they call.  Spec is the server    *)
(* answering one request at a time, SpecPar the handler on two worker      *)
(* threads, SpecCompile the compilation of one property sub-schema         *)
(* (qschemas.cast_to_type).                                                *)
(*                                                                         *)
(* All scalar values are strings, so that a stored field, a filter value,  *)
(* a key and the Python None can be compared with each other.              *)
(***************************************************************************)
EXTENDS Integers, Sequences, FiniteSets, TLC

VARIABLES
    db,            \* title -> (key -> stored document): the partitions db/<title>
    db_instances,  \* QDocument._db_instances: the titles that own a Quipu handle
    issued,        \* the uuid4 keys handed out so far
    pc,            \* "idle": waiting for a request; "done": handler has returned
    last,          \* the request being answered, the handler's locals, its result
    pre,           \* db as it was when the request of `last' arrived
    built,         \* title -> how many Quipu handles were constructed for db/<title>
    thr,           \* the handler threads of the concurrent server
    comp           \* the property sub-schema being compiled, and its field type

vars == <<db, db_instances, issued, pc, last, pre, built, thr, comp>>

---------------------------------------------------------------------------
(* Bounds of the model *)

MaxUuid == 1       \* how many uuid4 keys the server may hand out
MaxLimit == 2      \* largest explicit limit of a request
MaxOffset == 1     \* largest explicit offset of a request
MaxDepth == 2      \* deepest nesting of array items in a property sub-schema

(* Program constants *)

DefaultLimit == 1000
DefaultOffset == 0

None == "None"     \* Python's None, and a query parameter that was not sent

Namespaces == {"X", "Y"}
Titles == {"T1", "T2"}
Fields == {"a", "b"}
Values == {"1", "2"}
UserKeys == {"k1"}
UuidNames == <<"u1", "u2", "u3">>
Uuids == {UuidNames[i] : i \in 1..MaxUuid}

\* Persisted key order of the store: the byte order of the key strings.
KeyOrder == <<"k1">> \o SubSeq(UuidNames, 1, MaxUuid)
AllKeys == {KeyOrder[i] : i \in 1..Len(KeyOrder)}

\* The schemas requests carry: a title and the declared properties.
\* `required' is the schema's list of that name when hasRequired.
Schemas ==
    { [title |-> "T1", props |-> {"a", "b"}, hasRequired |-> FALSE, required |-> {}],
      [title |-> "T1", props |-> {"a", "b"}, hasRequired |-> TRUE, required |-> {"a"}],
      [title |-> "T1", props |-> {"a"}, hasRequired |-> FALSE, required |-> {}],
      [title |-> "T2", props |-> {}, hasRequired |-> FALSE, required |-> {}] }

Action ==
    { "putDoc", "getDoc", "mergeDoc", "deleteDoc",
      "findDocs", "scanDocs", "countDocs", "existsDoc" }

\* Action strings a client may send that are not of the Literal.
UnknownActions == {"dropDoc"}

EmptyDoc == [f \in {} |-> None]

\* The payloads (TypeDef.data) over the keys a client can know.
FieldValues(f) == IF f = "b" THEN {"2"} ELSE Values

Payloads(keys) ==
    UNION { { d \in [S -> Values \cup keys] :
                \A f \in S : IF f = "key" THEN d[f] \in keys ELSE d[f] \in FieldValues(f) }
            : S \in SUBSET (Fields \cup {"key"}) }

\* A limit / offset query parameter that was not sent (Optional[int] = None).
NotSent == 0 - 1
Limits == {NotSent} \cup (0..MaxLimit)
Offsets == {NotSent} \cup (0..MaxOffset)

---------------------------------------------------------------------------
(* The Quipu store of one partition: a function from the keys that hold a   *)
(* document to the document (a function from field names to values).       *)

Quipu_exists(store, key) == key \in DOMAIN store

Quipu_put_doc(store, key, value) ==
    [k \in DOMAIN store \cup {key} |-> IF k = key THEN value ELSE store[k]]

\* The overlay of the non-absent entries of `value' on `old'.
Overlay(old, value) ==
    LET given == {f \in DOMAIN value : value[f] # None}
    IN  [f \in DOMAIN old \cup given |-> IF f \in given THEN value[f] ELSE old[f]]

\* Fails (ok = FALSE, NotFound) when the key holds no document.
Quipu_merge_doc(store, key, value) ==
    IF key \in DOMAIN store
    THEN [ok |-> TRUE, store |-> [store EXCEPT ![key] = Overlay(store[key], value)]]
    ELSE [ok |-> FALSE, store |-> store]

Quipu_delete_doc(store, key) ==
    [k \in DOMAIN store \ {key} |-> store[k]]

\* The keys of the store in persisted key order.
StoredKeys(store) ==
    LET pos == {i \in 1..Len(KeyOrder) : KeyOrder[i] \in DOMAIN store}
        F[i \in 0..Len(KeyOrder)] ==
            IF i = 0 THEN <<>>
            ELSE IF i \in pos THEN Append(F[i - 1], KeyOrder[i]) ELSE F[i - 1]
    IN  F[Len(KeyOrder)]

\* Skip `offset' entries of a sequence, keep at most `limit'.
Page(seq, limit, offset) ==
    LET hi == IF offset + limit < Len(seq) THEN offset + limit ELSE Len(seq)
    IN  SubSeq(seq, offset + 1, hi)

Quipu_scan_docs(store, limit, offset) ==
    LET ks == StoredKeys(store)
    IN  Page([i \in 1..Len(ks) |-> store[ks[i]]], limit, offset)

\* A document matches when it equals the filter on every non-absent entry.
Matches(doc, kwargs) ==
    \A f \in DOMAIN kwargs :
        kwargs[f] # None => (f \in DOMAIN doc /\ doc[f] = kwargs[f])

SelectSeq2(seq, kwargs) ==
    LET F[i \in 0..Len(seq)] ==
            IF i = 0 THEN <<>>
            ELSE IF Matches(seq[i], kwargs) THEN Append(F[i - 1], seq[i]) ELSE F[i - 1]
    IN  F[Len(seq)]

Quipu_find_docs(store, limit, offset, kwargs) ==
    LET ks == StoredKeys(store)
    IN  Page(SelectSeq2([i \in 1..Len(ks) |-> store[ks[i]]], kwargs), limit, offset)

Quipu_count(store) == Cardinality(DOMAIN store)

---------------------------------------------------------------------------
(* The record class compiled from the request's schema. *)

\* partial: every field Optional with default None; otherwise every declared
\* property is a required field.  The schema's `required' list is not read.
create_model_from_json_schema(schema, partial) ==
    [ name |-> schema.title,
      fields |-> schema.props,
      required |-> IF partial THEN {} ELSE schema.props ]

create_class(action, schema) ==
    create_model_from_json_schema(schema, action \in {"mergeDoc", "findDocs"})

\* klass(**data) succeeds when every required field is given.
Validates(klass, data) == klass.required \subseteq DOMAIN data

\* model_dump() of klass(**data): the key (given, or the default factory's
\* uuid4) and the declared fields, None where not given; other entries of
\* data are ignored.
ModelDump(klass, data, uuid) ==
    [ f \in klass.fields \cup {"key"} |->
        IF f \in DOMAIN data THEN data[f]
        ELSE IF f = "key" THEN uuid ELSE None ]

---------------------------------------------------------------------------
(* The field type compiled from a property sub-schema (cast_to_type).      *)
(* A sub-schema is a record: `type' is the keyword or None when the key is  *)
(* missing, `enum' the literals listed (<<>>: no enum key), `props' the     *)
(* names under `properties', `items' the sub-schema under `items' (<<>>: no *)
(* items key), `union' which of anyOf / oneOf it carries, `branches' the    *)
(* sub-schemas listed there.                                                *)

TypeKeywords ==
    {"string", "integer", "number", "boolean", "object", "array", "null", "uuid"}

SubSchema(type, enum, props, items, union, branches) ==
    [ type |-> type, enum |-> enum, props |-> props, items |-> items,
      union |-> union, branches |-> branches ]

\* The empty schema {}.
EmptySchema == SubSchema(None, <<>>, {}, <<>>, "none", <<>>)

\* A literal of an enum list: the Python type of the decoded value, its text.
Lit(t, v) == [t |-> t, v |-> v]
Literals == {Lit("str", "x"), Lit("str", "y"), Lit("int", "1"), Lit("bool", "True")}

Enums ==
    { <<>>, <<Lit("str", "x"), Lit("str", "y")>>, <<Lit("int", "1")>>,
      <<Lit("str", "x"), Lit("int", "1")>>, <<Lit("int", "1"), Lit("bool", "True")>>,
      <<Lit("bool", "True"), Lit("int", "1")>> }

\* Sub-schemas without items or branches.
FlatSchemas ==
    { SubSchema(t, e, p, <<>>, "none", <<>>) :
        t \in TypeKeywords \cup {None}, e \in Enums, p \in {{}, {"a"}} }

UnionBranches ==
    { SubSchema(t, <<>>, {}, <<>>, "none", <<>>) : t \in {"string", "integer", "null"} }

UnionSchemas ==
    { SubSchema(t, <<>>, {}, <<>>, u, b) :
        t \in {None, "string", "object"}, u \in {"anyOf", "oneOf"},
        b \in {<<x>> : x \in UnionBranches}
              \cup {<<x, y>> : <<x, y>> \in UnionBranches \X UnionBranches} }

\* The sub-schemas of array nesting up to d.
RECURSIVE SubSchemas(_)
SubSchemas(d) ==
    IF d = 0 THEN FlatSchemas \cup UnionSchemas
    ELSE LET inner == SubSchemas(d - 1)
         IN  inner \cup
             { SubSchema("array", <<>>, {}, <<x>>, "none", <<>>) :
                 x \in {y \in inner : y.enum = <<>> /\ y.props = {} /\ y.union = "none"} }

\* The field types: a kind, the literals of a Literal, the parameters of a
\* List, Union or nested model.
FieldType(k, lits, of) == [k |-> k, lits |-> lits, of |-> of]
StrType == FieldType("str", <<>>, <<>>)
IntType == FieldType("int", <<>>, <<>>)
FloatType == FieldType("float", <<>>, <<>>)
BoolType == FieldType("bool", <<>>, <<>>)
DictType == FieldType("dict", <<>>, <<>>)
BareList == FieldType("list", <<>>, <<>>)
NoneType == FieldType("None", <<>>, <<>>)
AnyType == FieldType("Any", <<>>, <<>>)
LiteralOf(lits) == FieldType("Literal", lits, <<>>)
ListOf(t) == FieldType("List", <<>>, <<t>>)
UnionOf(ts) == FieldType("Union", <<>>, ts)
NestedModel(name) == FieldType("Model", <<>>, <<FieldType(name, <<>>, <<>>)>>)

\* MAPPING.get(keyword, str)
MAPPING(keyword) ==
    CASE keyword = "string" -> StrType
      [] keyword = "integer" -> IntType
      [] keyword = "number" -> FloatType
      [] keyword = "boolean" -> BoolType
      [] keyword = "object" -> DictType
      [] keyword = "array" -> BareList
      [] keyword = "null" -> NoneType
      [] OTHER -> StrType

\* isinstance(value, type(first)): bool is a subclass of int.
IsInstance(t, first) == t = first \/ (t = "bool" /\ first = "int")

\* The branches are tried in this order; a branch that is entered and does
\* not return falls through to the final `return Any'.
RECURSIVE cast_to_type(_)
cast_to_type(schema) ==
    IF schema.enum # <<>>
    THEN IF \A i \in 1..Len(schema.enum) : IsInstance(schema.enum[i].t, schema.enum[1].t)
         THEN LiteralOf(schema.enum)
         ELSE AnyType
    ELSE IF schema.type = "object"
    THEN IF schema.props # {}
         THEN NestedModel("Model")
         ELSE AnyType
    ELSE IF schema.type = "array"
    THEN ListOf(cast_to_type(IF schema.items = <<>> THEN EmptySchema ELSE schema.items[1]))
    ELSE MAPPING(IF schema.type = None THEN "string" ELSE schema.type)

NoCompile == [stage |-> "none", schema |-> EmptySchema, result |-> AnyType]

---------------------------------------------------------------------------
(* Results of a request *)

NoResult ==
    [kind |-> None, code |-> 0, key |-> None, docs |-> <<>>, n |-> 0, flag |-> FALSE]

Status(code, key) == [NoResult EXCEPT !.kind = "Status", !.code = code, !.key = key]
Error(kind) == [NoResult EXCEPT !.kind = kind]
DocList(docs) == [NoResult EXCEPT !.kind = "List", !.docs = docs]
OneDoc(doc) == [NoResult EXCEPT !.kind = "Doc", !.docs = <<doc>>, !.key = doc["key"]]
NoDoc == [NoResult EXCEPT !.kind = "Null"]
IntResult(n) == [NoResult EXCEPT !.kind = "Int", !.n = n]
BoolResult(b) == [NoResult EXCEPT !.kind = "Bool", !.flag = b]

ErrorKinds ==
    { "AssertionError", "BadRequest", "ValidationError", "NotFound",
      "RequestValidationError" }

\* What an operation leaves: the store, the result, the Quipu calls it made.
Outcome(store, res, calls) == [store |-> store, res |-> res, calls |-> calls]

---------------------------------------------------------------------------
(* QDocument operations on the store of the class *)

\* put_doc with the write left out when the key is new.
put_doc_mergeOnly(store, dump) ==
    LET key == dump["key"]
    IN  IF Quipu_exists(store, key)
        THEN Outcome(Quipu_merge_doc(store, key, dump).store,
                     Status(201, key), <<"exists", "merge_doc">>)
        ELSE Outcome(store, Status(201, key), <<"exists">>)

\* put_doc that answers 200 when the key existed.
put_doc_updated(store, dump) ==
    LET key == dump["key"]
    IN  IF Quipu_exists(store, key)
        THEN Outcome(Quipu_put_doc(Quipu_merge_doc(store, key, dump).store, key, dump),
                     Status(200, key), <<"exists", "merge_doc", "put_doc">>)
        ELSE Outcome(Quipu_put_doc(store, key, dump),
                     Status(201, key), <<"exists", "put_doc">>)

\* The merge, when the key exists, is followed by the same unconditional
\* write as for a new key.
put_doc(store, dump) ==
    LET key == dump["key"]
    IN  IF Quipu_exists(store, key)
        THEN Outcome(Quipu_put_doc(Quipu_merge_doc(store, key, dump).store, key, dump),
                     Status(201, key), <<"exists", "merge_doc", "put_doc">>)
        ELSE Outcome(Quipu_put_doc(store, key, dump),
                     Status(201, key), <<"exists", "put_doc">>)

\* cls.model_validate over the documents read; any failure fails the call.
ValidateAll(klass, docs) ==
    IF \A i \in 1..Len(docs) : Validates(klass, docs[i])
    THEN DocList([i \in 1..Len(docs) |-> ModelDump(klass, docs[i], None)])
    ELSE Error("ValidationError")

get_doc(store, klass, key) ==
    IF Quipu_exists(store, key)
    THEN Outcome(store,
                 IF Validates(klass, store[key])
                 THEN OneDoc(ModelDump(klass, store[key], None))
                 ELSE Error("ValidationError"),
                 <<"get_doc">>)
    ELSE Outcome(store, NoDoc, <<"get_doc">>)

\* merge_doc that creates the document when the key is new.
merge_doc_upsert(store, dump) ==
    LET key == dump["key"]
        m == Quipu_merge_doc(store, key, dump)
    IN  IF m.ok
        THEN Outcome(m.store, Status(200, key), <<"merge_doc">>)
        ELSE Outcome(Quipu_put_doc(store, key, dump), Status(200, key),
                     <<"merge_doc", "put_doc">>)

merge_doc(store, dump) ==
    LET key == dump["key"]
        m == Quipu_merge_doc(store, key, dump)
    IN  IF m.ok
        THEN Outcome(m.store, Status(200, key), <<"merge_doc">>)
        ELSE Outcome(store, Error("NotFound"), <<"merge_doc">>)

\* delete_doc that reports a missing key.
delete_doc_strict(store, key) ==
    IF Quipu_exists(store, key)
    THEN Outcome(Quipu_delete_doc(store, key), Status(204, key), <<"exists", "delete_doc">>)
    ELSE Outcome(store, Error("NotFound"), <<"exists">>)

\* delete_doc that answers 204 and removes nothing.
delete_doc_keep(store, key) ==
    Outcome(store, Status(204, key), <<"delete_doc">>)

delete_doc(store, key) ==
    Outcome(Quipu_delete_doc(store, key), Status(204, key), <<"delete_doc">>)

\* scan_docs with limit and offset passed in the wrong order.
scan_docs_swapped(store, klass, limit, offset) ==
    Outcome(store, ValidateAll(klass, Quipu_scan_docs(store, offset, limit)),
            <<"scan_docs">>)

scan_docs(store, klass, limit, offset) ==
    Outcome(store, ValidateAll(klass, Quipu_scan_docs(store, limit, offset)),
            <<"scan_docs">>)

find_docs(store, klass, limit, offset, kwargs) ==
    Outcome(store, ValidateAll(klass, Quipu_find_docs(store, limit, offset, kwargs)),
            <<"find_docs">>)

count(store) == Outcome(store, IntResult(Quipu_count(store)), <<"count">>)

exists(store, key) == Outcome(store, BoolResult(Quipu_exists(store, key)), <<"exists">>)

---------------------------------------------------------------------------
(* The request handler *)

\* Python's `x or d' on an Optional[int]: None and 0 both give d.
OrDefault(x, d) == IF x = NotSent \/ x = 0 THEN d ELSE x

\* find_docs(..., namespace=namespace, **definition.data): the filter is the
\* raw payload together with the namespace of the path.
FindKwargs(namespace, data) ==
    [f \in DOMAIN data \cup {"namespace"} |->
        IF f = "namespace" THEN namespace ELSE data[f]]

\* QDocument.__init_subclass__: the class registers the Quipu of db/<name>.
init_subclass(instances, klass) == instances \cup {klass.name}

\* RequestError that never looks at the payload.
RequestError_keyOnly(req) ==
    IF req.action \in {"putDoc", "mergeDoc", "findDocs"}
    THEN None
    ELSE IF req.key = None THEN "AssertionError" ELSE None

\* The checks the handler makes before it routes: the payload asserted for
\* putDoc, mergeDoc and findDocs; for the other five actions the key asserted,
\* then a payload refused with HTTP 400; any other action refused with HTTP
\* 400.  None when the request passes.
RequestError(req) ==
    IF req.action \in {"putDoc", "mergeDoc", "findDocs"}
    THEN IF ~req.hasData THEN "AssertionError" ELSE None
    ELSE IF req.action \in {"getDoc", "deleteDoc", "scanDocs", "countDocs", "existsDoc"}
    THEN IF req.key = None THEN "AssertionError"
         ELSE IF req.hasData THEN "BadRequest" ELSE None
    ELSE "BadRequest"

\* The body of the handler after the class is created: the outcome on the
\* store of the class, the key of the document instance it built, and the
\* QDocument operation it called.  `uuid' is what uuid4() returns if the
\* handler calls it.
Route(req, klass, store, uuid) ==
    IF RequestError(req) # None
    THEN [out |-> Outcome(store, Error(RequestError(req)), <<>>),
          dockey |-> None, op |-> None]
    ELSE IF req.action = "findDocs"
    THEN [out |-> find_docs(store, klass,
                            OrDefault(req.limit, DefaultLimit),
                            OrDefault(req.offset, DefaultOffset),
                            FindKwargs(req.ns, req.data)),
          dockey |-> None, op |-> "find_docs"]
    ELSE IF req.action \in {"putDoc", "mergeDoc"}
    THEN IF ~Validates(klass, req.data)
         THEN [out |-> Outcome(store, Error("ValidationError"), <<>>),
               dockey |-> None, op |-> None]
         ELSE LET dump == ModelDump(klass, req.data, uuid)
              IN  [out |-> IF req.action = "putDoc"
                           THEN put_doc(store, dump)
                           ELSE merge_doc(store, dump),
                   dockey |-> dump["key"],
                   op |-> IF req.action = "putDoc" THEN "put_doc" ELSE "merge_doc"]
    ELSE [out |-> CASE req.action = "getDoc" -> get_doc(store, klass, req.key)
                    [] req.action = "deleteDoc" -> delete_doc(store, req.key)
                    [] req.action = "scanDocs" ->
                           scan_docs(store, klass,
                                     OrDefault(req.limit, DefaultLimit),
                                     OrDefault(req.offset, DefaultOffset))
                    [] req.action = "countDocs" -> count(store)
                    [] req.action = "existsDoc" -> exists(store, req.key),
          dockey |-> None,
          op |-> CASE req.action = "getDoc" -> "get_doc"
                   [] req.action = "deleteDoc" -> "delete_doc"
                   [] req.action = "scanDocs" -> "scan_docs"
                   [] req.action = "countDocs" -> "count"
                   [] req.action = "existsDoc" -> "exists"]

\* Whether the handler draws a uuid4: it builds a document from a payload
\* that carries no key.
NeedsUuid(req) ==
    /\ req.action \in {"putDoc", "mergeDoc"}
    /\ req.hasData
    /\ "key" \notin DOMAIN req.data
    /\ Validates(create_class(req.action, req.schema), req.data)

NoRequest ==
    [ ns |-> None, action |-> None, key |-> None, limit |-> NotSent,
      offset |-> NotSent,
      schema |-> [title |-> None, props |-> {}, hasRequired |-> FALSE, required |-> {}],
      hasData |-> FALSE, data |-> EmptyDoc,
      dockey |-> None, res |-> NoResult, calls |-> <<>>,
      op |-> None, opened |-> FALSE ]

\* The request as the handler received it, with what the handler did.
Answered(req, dockey, res, calls, op, opened) ==
    [ ns |-> req.ns, action |-> req.action, key |-> req.key,
      limit |-> req.limit, offset |-> req.offset,
      schema |-> req.schema, hasData |-> req.hasData,
      data |-> req.data, dockey |-> dockey,
      res |-> res, calls |-> calls, op |-> op, opened |-> opened ]

\* The action parameter accepted as whatever string was sent.
ValidAction_any(action) == TRUE

\* The handler's parameter `action: Action': the framework answers a request
\* whose action is not of the Literal itself, and does not call the handler.
ValidAction(action) == action \in Action

\* The Quipu constructed by __init_subclass__ when the name is not registered.
Constructed(instances, counts, klass) ==
    IF klass.name \in instances THEN counts
    ELSE [counts EXCEPT ![klass.name] = @ + 1]

Handle(req) ==
    IF ~ValidAction(req.action)
    THEN /\ last' = Answered(req, None, Error("RequestValidationError"), <<>>, None, FALSE)
         /\ pre' = db
         /\ pc' = "done"
         /\ UNCHANGED <<db, db_instances, issued, built, thr, comp>>
    ELSE
    /\ \E uuid \in IF NeedsUuid(req) THEN Uuids \ issued ELSE {None} :
         \E klass \in {create_class(req.action, req.schema)} :
           \E r \in {Route(req, klass, db[klass.name], uuid)} :
             /\ db_instances' = init_subclass(db_instances, klass)
             /\ built' = Constructed(db_instances, built, klass)
             /\ db' = [db EXCEPT ![klass.name] = r.out.store]
             /\ issued' = IF uuid # None /\ r.out.res.kind = "Status" /\ req.action = "putDoc"
                          THEN issued \cup {uuid} ELSE issued
             /\ last' = Answered(req, r.dockey, r.out.res, r.out.calls, r.op,
                                 klass.name \notin db_instances)
             /\ pre' = db
             /\ pc' = "done"
             /\ UNCHANGED <<thr, comp>>

\* The response is sent; the handler's locals are gone.
Respond ==
    /\ pc = "done"
    /\ pc' = "idle"
    /\ last' = NoRequest
    /\ pre' = db
    /\ UNCHANGED <<db, db_instances, issued, built, thr, comp>>

---------------------------------------------------------------------------
(* The requests a client sends *)

KnownKeys == UserKeys \cup issued

Request(action, ns, sc, key, limit, offset, hasData, data) ==
    [ ns |-> ns, action |-> action, key |-> key, limit |-> limit,
      offset |-> offset, schema |-> sc, hasData |-> hasData, data |-> data ]

AllPayloads == Payloads(AllKeys)

\* The payloads a client sends with a schema: any key in them is one it
\* knows, and the other entries are properties the schema declares.
Known(d, sc) ==
    /\ "key" \in DOMAIN d => d["key"] \in KnownKeys
    /\ DOMAIN d \subseteq sc.props \cup {"key"}

\* The filters of findDocs requests: payloads without a key.
Filters == Payloads({})

\* putDoc takes its key from the payload; the handler never reads the query's
\* key, limit or offset on this path.
PutDoc ==
    /\ pc = "idle"
    /\ \E ns \in Namespaces, sc \in Schemas :
        \/ Handle(Request("putDoc", ns, sc, None, NotSent, NotSent, FALSE, EmptyDoc))
        \/ \E d \in AllPayloads :
              /\ Known(d, sc)
              /\ Handle(Request("putDoc", ns, sc, None, NotSent, NotSent, TRUE, d))

MergeDoc ==
    /\ pc = "idle"
    /\ \E ns \in Namespaces, sc \in Schemas, key \in {None} \cup UserKeys :
        /\ TRUE
        /\ \/ Handle(Request("mergeDoc", ns, sc, key, NotSent, NotSent, FALSE, EmptyDoc))
           \/ \E d \in AllPayloads :
                 /\ Known(d, sc)
                 /\ Handle(Request("mergeDoc", ns, sc, key, NotSent, NotSent, TRUE, d))

FindDocs ==
    /\ pc = "idle"
    /\ \E ns \in Namespaces, sc \in Schemas :
        \/ Handle(Request("findDocs", ns, sc, None, NotSent, NotSent, FALSE, EmptyDoc))
        \/ \E d \in Filters, l \in Limits, o \in Offsets :
              /\ Known(d, sc)
              /\ Handle(Request("findDocs", ns, sc, None, l, o, TRUE, d))

\* The actions that take no payload: with and without a key, and with a
\* payload that must be refused.
Keyed(action) ==
    \E ns \in Namespaces, sc \in Schemas, key \in {None} \cup AllKeys, hasData \in BOOLEAN :
        /\ key \in {None} \cup KnownKeys
        /\ Handle(Request(action, ns, sc, key, NotSent, NotSent, hasData, EmptyDoc))

GetDoc == pc = "idle" /\ Keyed("getDoc")

DeleteDoc == pc = "idle" /\ Keyed("deleteDoc")

ExistsDoc == pc = "idle" /\ Keyed("existsDoc")

ScanDocs ==
    /\ pc = "idle"
    /\ \E ns \in Namespaces, sc \in Schemas, key \in {None} \cup UserKeys :
          \/ \E l \in Limits, o \in Offsets :
                Handle(Request("scanDocs", ns, sc, key, l, o, FALSE, EmptyDoc))
          \/ Handle(Request("scanDocs", ns, sc, key, NotSent, NotSent, TRUE, EmptyDoc))

CountDocs ==
    /\ pc = "idle"
    /\ \E ns \in Namespaces, sc \in Schemas, key \in {None} \cup UserKeys, hasData \in BOOLEAN :
        Handle(Request("countDocs", ns, sc, key, NotSent, NotSent, hasData, EmptyDoc))

\* A request whose action string is not one of the eight.
UnknownAction ==
    /\ pc = "idle"
    /\ \E action \in UnknownActions, ns \in Namespaces, sc \in Schemas,
          key \in {None} \cup UserKeys, hasData \in BOOLEAN :
        Handle(Request(action, ns, sc, key, NotSent, NotSent, hasData, EmptyDoc))

---------------------------------------------------------------------------
(* The handler on the server's worker threads.  The handler is a plain      *)
(* `def', so requests run on the threads of a pool and interleave at the    *)
(* calls they make: the registry lookup and the Quipu construction of       *)
(* __init_subclass__, and each Quipu call of the QDocument operation.  No   *)
(* lock is taken anywhere.  The threads work on key k1 of partition T1.     *)

Threads == {"t1", "t2"}
ParTitle == "T1"
ParKey == "k1"
ParClass == create_class("putDoc", [title |-> ParTitle, props |-> {"a", "b"},
                                    hasRequired |-> FALSE, required |-> {}])

\* The documents the threads put or merge: model_dump() of the payloads.
ParDumps ==
    { ModelDump(ParClass, [key |-> ParKey, a |-> "1", b |-> "2"], None),
      ModelDump(ParClass, [key |-> ParKey, a |-> "2"], None) }

IdleThread ==
    [ pc |-> "idle", op |-> None, dump |-> EmptyDoc, handle |-> 0,
      res |-> NoResult ]

NoThreads == [t \in Threads |-> IdleThread]

\* The request arrives; create_class builds the class and __init_subclass__
\* tests whether its name is registered.
ParBegin(t) ==
    /\ thr[t].pc = "idle"
    /\ \E op \in {"put_doc", "merge_doc", "delete_doc"}, dump \in ParDumps :
          /\ op = "delete_doc" => dump = ModelDump(ParClass, [key |-> ParKey, a |-> "2"], None)
          /\ thr' = [thr EXCEPT ![t] =
                        [IdleThread EXCEPT !.op = op, !.dump = dump,
                           !.pc = IF ParTitle \in db_instances THEN "bind" ELSE "construct"]]
    /\ UNCHANGED <<db, db_instances, issued, pc, last, pre, built, comp>>

\* The name was not registered when tested: a Quipu is constructed and stored
\* in the registry under the name.
ParConstruct(t) ==
    /\ thr[t].pc = "construct"
    /\ built' = [built EXCEPT ![ParTitle] = @ + 1]
    /\ db_instances' = init_subclass(db_instances, ParClass)
    /\ thr' = [thr EXCEPT ![t].pc = "bind"]
    /\ UNCHANGED <<db, issued, pc, last, pre, comp>>

\* cls._db = cls._db_instances[name]: the handle the registry holds now.
ParBind(t) ==
    /\ thr[t].pc = "bind"
    /\ thr' = [thr EXCEPT ![t].handle = built[ParTitle],
                          ![t].pc = CASE thr[t].op = "put_doc" -> "exists"
                                      [] thr[t].op = "merge_doc" -> "merge"
                                      [] thr[t].op = "delete_doc" -> "delete"]
    /\ UNCHANGED <<db, db_instances, issued, pc, last, pre, built, comp>>

\* put_doc: the existence check.
ParExists(t) ==
    /\ thr[t].pc = "exists"
    /\ thr' = [thr EXCEPT ![t].pc =
                  IF Quipu_exists(db[ParTitle], ParKey) THEN "merge" ELSE "write"]
    /\ UNCHANGED <<db, db_instances, issued, pc, last, pre, built, comp>>

\* _db.merge_doc, of merge_doc and of put_doc after a positive check; its
\* failure is the result of the request.
ParMerge(t) ==
    /\ thr[t].pc = "merge"
    /\ LET m == Quipu_merge_doc(db[ParTitle], ParKey, thr[t].dump)
       IN  /\ db' = [db EXCEPT ![ParTitle] = m.store]
           /\ thr' = IF ~m.ok
                     THEN [thr EXCEPT ![t].pc = "done", ![t].res = Error("NotFound")]
                     ELSE IF thr[t].op = "put_doc"
                     THEN [thr EXCEPT ![t].pc = "write"]
                     ELSE [thr EXCEPT ![t].pc = "done", ![t].res = Status(200, ParKey)]
    /\ UNCHANGED <<db_instances, issued, pc, last, pre, built, comp>>

\* put_doc: the unconditional _db.put_doc and the Status.
ParWrite(t) ==
    /\ thr[t].pc = "write"
    /\ db' = [db EXCEPT ![ParTitle] = Quipu_put_doc(@, ParKey, thr[t].dump)]
    /\ thr' = [thr EXCEPT ![t].pc = "done", ![t].res = Status(201, ParKey)]
    /\ UNCHANGED <<db_instances, issued, pc, last, pre, built, comp>>

ParDelete(t) ==
    /\ thr[t].pc = "delete"
    /\ db' = [db EXCEPT ![ParTitle] = Quipu_delete_doc(@, ParKey)]
    /\ thr' = [thr EXCEPT ![t].pc = "done", ![t].res = Status(204, ParKey)]
    /\ UNCHANGED <<db_instances, issued, pc, last, pre, built, comp>>

\* The response is sent and the thread goes back to the pool.
ParReturn(t) ==
    /\ thr[t].pc = "done"
    /\ thr' = [thr EXCEPT ![t] = IdleThread]
    /\ UNCHANGED <<db, db_instances, issued, pc, last, pre, built, comp>>

---------------------------------------------------------------------------
(* Compiling one property sub-schema *)

Compile ==
    /\ comp.stage = "input"
    /\ comp' = [comp EXCEPT !.stage = "compiled", !.result = cast_to_type(comp.schema)]
    /\ UNCHANGED <<db, db_instances, issued, pc, last, pre, built, thr>>

---------------------------------------------------------------------------

Init ==
    /\ db = [t \in Titles |-> EmptyDoc]
    /\ db_instances = {}
    /\ issued = {}
    /\ pc = "idle"
    /\ last = NoRequest
    /\ pre = [t \in Titles |-> EmptyDoc]
    /\ built = [t \in Titles |-> 0]
    /\ thr = NoThreads
    /\ comp = NoCompile

Next ==
    \/ PutDoc
    \/ GetDoc
    \/ MergeDoc
    \/ DeleteDoc
    \/ FindDocs
    \/ ScanDocs
    \/ CountDocs
    \/ ExistsDoc
    \/ UnknownAction
    \/ Respond

Spec == Init /\ [][Next]_vars

\* Two worker threads serving put, merge and delete requests for one key.
NextPar ==
    \E t \in Threads :
        \/ ParBegin(t)
        \/ ParConstruct(t)
        \/ ParBind(t)
        \/ ParExists(t)
        \/ ParMerge(t)
        \/ ParWrite(t)
        \/ ParDelete(t)
        \/ ParReturn(t)

SpecPar == Init /\ [][NextPar]_vars

\* One sub-schema, drawn from the sub-schemas of nesting up to MaxDepth, and
\* its compilation.
InitCompile ==
    /\ db = [t \in Titles |-> EmptyDoc]
    /\ db_instances = {}
    /\ issued = {}
    /\ pc = "idle"
    /\ last = NoRequest
    /\ pre = [t \in Titles |-> EmptyDoc]
    /\ built = [t \in Titles |-> 0]
    /\ thr = NoThreads
    /\ comp \in {[stage |-> "input", schema |-> x, result |-> AnyType] :
                    x \in SubSchemas(MaxDepth)}

NextCompile == Compile

SpecCompile == InitCompile /\ [][NextCompile]_vars

---------------------------------------------------------------------------
(* Properties *)

\* The partition the request of `last' works on, now and when it arrived.
Title == last.schema.title
StoreNow == db[Title]
StoreBefore == pre[Title]

ReturnedDoc == last.res.docs[1]

\* The payload's entries other than the key.
PayloadFields == DOMAIN last.data \ {"key"}

\* An accepted putDoc on a key that already held a record.
PutOnExisting ==
    /\ pc = "done"
    /\ last.action = "putDoc"
    /\ last.res.kind = "Status"
    /\ last.dockey \in DOMAIN StoreBefore

\* C1: a put on a key that already holds record R leaves R overlaid with the
\* payload: every field the payload gives has the payload's value, and every
\* field of R the payload omits is still there with its old value.
C1_UpsertMerges ==
    PutOnExisting =>
        /\ last.dockey \in DOMAIN StoreNow
        /\ \A f \in PayloadFields : StoreNow[last.dockey][f] = last.data[f]
        /\ \A f \in DOMAIN StoreBefore[last.dockey] \ DOMAIN last.data :
              /\ f \in DOMAIN StoreNow[last.dockey]
              /\ StoreNow[last.dockey][f] = StoreBefore[last.dockey][f]

\* The answer the handler gives, on the store as it is now, to a request
\* of the action with this namespace, schema and key and no payload.
Probe(action, ns, sc, key) ==
    Route(Request(action, ns, sc, key, NotSent, NotSent, FALSE, EmptyDoc),
          create_class(action, sc), db[sc.title], None).out.res

\* An accepted putDoc on a key that held no record.
PutCreated ==
    /\ pc = "done"
    /\ last.action = "putDoc"
    /\ last.res.kind = "Status"
    /\ last.dockey \notin DOMAIN StoreBefore

\* The getDoc that follows the put: same namespace and schema, the key of
\* the put's Status.
GetAfterPut == Probe("getDoc", last.ns, last.schema, last.res.key)

TotalDocs(d) == Cardinality({<<t, k>> \in Titles \X AllKeys : k \in DOMAIN d[t]})

\* An accepted putDoc whose record is the only record of the whole store.
PutAlone ==
    /\ pc = "done"
    /\ last.action = "putDoc"
    /\ last.res.kind = "Status"
    /\ TotalDocs(db) = 1

\* C3: a record put under namespace X is not returned by getDoc or scanDocs
\* and not counted by countDocs under another namespace Y, whatever schema
\* title the request carries and even for the same key.
C3_NamespaceIsolation ==
    PutAlone =>
        \A ns \in Namespaces \ {last.ns}, sc \in Schemas :
            /\ Probe("getDoc", ns, sc, last.res.key).kind # "Doc"
            /\ Probe("scanDocs", ns, sc, last.res.key).docs = <<>>
            /\ Probe("countDocs", ns, sc, last.res.key).n = 0

\* A mergeDoc request with a payload, for a key that holds a record.
MergeOfExistingKey ==
    /\ pc = "done"
    /\ last.action = "mergeDoc"
    /\ last.hasData
    /\ last.key # None
    /\ last.key \in DOMAIN StoreBefore

\* C4: a mergeDoc request with key K and payload D, when K holds record R,
\* returns Status 200 for K, leaves under K the record R overlaid with the
\* fields of D, and leaves every other record unchanged.
C4_MergeTargetsKey ==
    MergeOfExistingKey =>
        /\ last.res = Status(200, last.key)
        /\ DOMAIN StoreNow = DOMAIN StoreBefore
        /\ \A f \in PayloadFields : StoreNow[last.key][f] = last.data[f]
        /\ \A f \in DOMAIN StoreBefore[last.key] \ PayloadFields :
              StoreNow[last.key][f] = StoreBefore[last.key][f]
        /\ \A k \in DOMAIN StoreBefore \ {last.key} : StoreNow[k] = StoreBefore[k]
        /\ \A t \in Titles \ {Title} : db[t] = pre[t]

\* A mergeDoc whose document was built, for a key that holds no record.
MergeOfAbsentKey ==
    /\ pc = "done"
    /\ last.action = "mergeDoc"
    /\ last.dockey # None
    /\ last.dockey \notin DOMAIN StoreBefore

\* C5: a merge on a key that holds no record fails with NotFound, creates no
\* record and leaves the whole store as it was.
C5_MergeRequiresExistence ==
    MergeOfAbsentKey =>
        /\ last.res.kind = "NotFound"
        /\ db = pre

\* A failed merge beside a record of another key.
C5_Witness ==
    /\ MergeOfAbsentKey
    /\ last.res.kind = "NotFound"
    /\ DOMAIN StoreBefore # {}
    /\ "key" \in DOMAIN last.data

\* A deleteDoc request that passed validation.
DeleteRouted ==
    /\ pc = "done"
    /\ last.action = "deleteDoc"
    /\ last.key # None
    /\ ~last.hasData

\* C6: delete returns Status 204 whether or not the key holds a record; the
\* key is absent afterwards, every other record is untouched, and a delete of
\* an absent key (the second of two in a row) leaves the store unchanged.
C6_DeleteIdempotent ==
    DeleteRouted =>
        /\ last.res = Status(204, last.key)
        /\ DOMAIN StoreNow = DOMAIN StoreBefore \ {last.key}
        /\ \A k \in DOMAIN StoreNow : StoreNow[k] = StoreBefore[k]
        /\ \A t \in Titles \ {Title} : db[t] = pre[t]
        /\ last.key \notin DOMAIN StoreBefore => db = pre

\* A delete of a key that is already absent, beside another record.
C6_Witness ==
    /\ DeleteRouted
    /\ last.key \notin DOMAIN StoreBefore
    /\ DOMAIN StoreBefore # {}
    /\ last.res.code = 204

\* The documents of a store in persisted key order.
AllDocs(store) ==
    LET ks == StoredKeys(store) IN [i \in 1..Len(ks) |-> store[ks[i]]]

KeysOf(docs) == [i \in 1..Len(docs) |-> docs[i]["key"]]

\* A findDocs request that carries a payload.
FindRouted ==
    /\ pc = "done"
    /\ last.action = "findDocs"
    /\ last.hasData

\* C7: findDocs with payload D returns exactly the records of the partition
\* that equal D on every field of D, filtered before the page is cut; with an
\* empty payload these are the records scanDocs returns for the same page.
C7_FindConjunction ==
    FindRouted =>
        /\ last.res.kind = "List"
        /\ KeysOf(last.res.docs) =
              KeysOf(Page(SelectSeq2(AllDocs(StoreBefore), last.data),
                          OrDefault(last.limit, DefaultLimit),
                          OrDefault(last.offset, DefaultOffset)))

\* The position of a key in the persisted key order.
Rank(k) == CHOOSE i \in 1..Len(KeyOrder) : KeyOrder[i] = k

\* The key of the store with exactly p - 1 stored keys before it.
KeyAt(store, p) ==
    CHOOSE k \in DOMAIN store :
        Cardinality({j \in DOMAIN store : Rank(j) < Rank(k)}) = p - 1

Min(x, y) == IF x < y THEN x ELSE y

\* The records of positions offset+1 .. min(offset+limit, N), as klass dumps them.
Slice(store, klass, limit, offset) ==
    LET n == Cardinality(DOMAIN store)
        hi == Min(offset + limit, n)
    IN  [i \in 1..(IF hi > offset THEN hi - offset ELSE 0) |->
            ModelDump(klass, store[KeyAt(store, offset + i)], None)]

\* The concatenation of the k consecutive pages of size L.
RECURSIVE Pages(_, _, _, _)
Pages(store, klass, L, k) ==
    IF k = 0 THEN <<>>
    ELSE Pages(store, klass, L, k - 1)
         \o scan_docs(store, klass, L, (k - 1) * L).res.docs

\* A scanDocs request routed to a store whose records all fit the class.
ScanRouted ==
    /\ pc = "done"
    /\ last.action = "scanDocs"
    /\ last.calls # <<>>
    /\ \A k \in DOMAIN StoreBefore :
          Validates(create_class("scanDocs", last.schema), StoreBefore[k])

C9_KeyRequirement ==
    pc = "done" /\ last.key = None =>
        /\ last.action \in {"getDoc", "deleteDoc", "existsDoc"} =>
              last.res.kind \in ErrorKinds
        /\ last.action = "scanDocs" /\ ~last.hasData =>
              last.res.kind \notin ErrorKinds /\ last.calls = <<"scan_docs">>
        /\ last.action = "countDocs" /\ ~last.hasData =>
              last.res.kind \notin ErrorKinds /\ last.calls = <<"count">>

\* A request whose payload is absent where one is needed, or present where
\* none is allowed.
WrongPayload ==
    /\ pc = "done"
    /\ IF last.action \in {"putDoc", "mergeDoc", "findDocs"}
       THEN ~last.hasData
       ELSE last.hasData

\* C10: putDoc, mergeDoc and findDocs without a payload, and the other five
\* actions with one, fail with an error, call no store operation and leave
\* the store as it was.
C10_PayloadRequirement ==
    WrongPayload =>
        /\ last.res.kind \in ErrorKinds
        /\ last.calls = <<>>
        /\ db = pre

\* A keyed getDoc refused for the payload it carries, on a store with a record.
C10_Witness ==
    /\ WrongPayload
    /\ last.action = "getDoc"
    /\ last.key \in DOMAIN StoreBefore
    /\ last.res.kind = "BadRequest"

\* A request of one of the eight actions that fails validation: the key
\* missing for getDoc, deleteDoc or existsDoc, the payload missing for putDoc,
\* mergeDoc or findDocs, or a payload sent with one of the other five.
FailsValidation ==
    /\ pc = "done"
    /\ last.action \in Action
    /\ \/ last.action \in {"getDoc", "deleteDoc", "existsDoc"} /\ last.key = None
       \/ last.action \in {"putDoc", "mergeDoc", "findDocs"} /\ ~last.hasData
       \/ last.action \notin {"putDoc", "mergeDoc", "findDocs"} /\ last.hasData

\* C11: a request that fails validation is answered with an error and has
\* made no storage access: no store handle was constructed or partition
\* opened for it, no store operation was called, and no record changed.
C11_ValidationFirst ==
    FailsValidation =>
        /\ last.res.kind \in ErrorKinds
        /\ ~last.opened
        /\ last.calls = <<>>
        /\ db = pre

\* The QDocument operation of each action, and the Quipu calls it may make.
OperationOf(action) ==
    CASE action = "putDoc" -> "put_doc"
      [] action = "getDoc" -> "get_doc"
      [] action = "mergeDoc" -> "merge_doc"
      [] action = "deleteDoc" -> "delete_doc"
      [] action = "findDocs" -> "find_docs"
      [] action = "scanDocs" -> "scan_docs"
      [] action = "countDocs" -> "count"
      [] action = "existsDoc" -> "exists"

CallsOf(action) ==
    IF action = "putDoc" THEN {"exists", "merge_doc", "put_doc"}
    ELSE {OperationOf(action)}

\* The request of `last' as it was sent.
LastRequest ==
    Request(last.action, last.ns, last.schema, last.key, last.limit,
            last.offset, last.hasData, last.data)

\* The request passed the handler's checks and, for putDoc and mergeDoc, the
\* class accepted the payload.
Validated ==
    /\ last.action \in Action
    /\ RequestError(LastRequest) = None
    /\ last.action \in {"putDoc", "mergeDoc"} =>
          Validates(create_class(last.action, last.schema), last.data)

\* C12: a request whose action is not one of the eight is rejected, routed
\* to no operation, and touches no handle, partition or record; a validated
\* request of one of the eight is routed to the operation of its action, and
\* no request reaches an operation or a store call of another action.
C12_ClosedActionSet ==
    pc = "done" =>
        /\ last.action \notin Action =>
              /\ last.res.kind \in ErrorKinds
              /\ last.op = None
              /\ last.calls = <<>>
              /\ ~last.opened
              /\ db = pre
        /\ Validated => last.op = OperationOf(last.action)
        /\ last.action \in Action =>
              /\ last.op \in {None, OperationOf(last.action)}
              /\ \A i \in 1..Len(last.calls) : last.calls[i] \in CallsOf(last.action)

\* The first request the server ever gets names an unknown action.
C12_Witness ==
    /\ pc = "done"
    /\ last.action \in UnknownActions
    /\ last.res.kind = "RequestValidationError"
    /\ db_instances = {}
    /\ last.key # None

\* C13: concurrent put, merge and delete requests on one key behave as some
\* serial order of them: no mutation of the key comes between a put's
\* existence check and its merge, so a put that has returned has returned
\* its Status 201 and never NotFound.
C13_PerKeyAtomic ==
    \A t \in Threads :
        thr[t].op = "put_doc" /\ thr[t].pc = "done" =>
            thr[t].res = Status(201, ParKey)

\* C14: for every interleaving of first requests at most one Quipu handle is
\* constructed for a partition, and all requests are bound to the same one.
C14_SingleFlight ==
    /\ \A title \in Titles : built[title] <= 1
    /\ \A t, u \in Threads :
          thr[t].handle # 0 /\ thr[u].handle # 0 => thr[t].handle = thr[u].handle

\* The fields the schema makes mandatory for the action: none for the
\* partial shapes of mergeDoc and findDocs, otherwise those listed in
\* `required', or every declared property when there is no such list.
Mandatory(sc, action) ==
    IF action \in {"mergeDoc", "findDocs"} THEN {}
    ELSE IF sc.hasRequired THEN sc.required
    ELSE sc.props

\* C15: the class compiled for a request refuses a payload exactly when the
\* payload lacks a field that is mandatory for the action; for putDoc these
\* are the schema's `required' fields (all properties without the list), for
\* mergeDoc none.
C15_RequiredFields ==
    pc = "done" /\ last.action \in {"putDoc", "mergeDoc"} /\ last.hasData =>
        (last.res.kind = "ValidationError"
            <=> ~(Mandatory(last.schema, last.action) \subseteq DOMAIN last.data))

\* The enum lists literals of more than one primitive type.
MixedEnum(schema) ==
    \E i, j \in 1..Len(schema.enum) : schema.enum[i].t # schema.enum[j].t

\* C16: compiling a property whose enum mixes literal types fails with
\* SchemaError and yields no field type.
C16_MixedEnumRejected ==
    comp.stage = "compiled" /\ MixedEnum(comp.schema) =>
        comp.result.k = "SchemaError"

\* An accepted put: the payload passed the class and put_doc was called.
PutAccepted ==
    /\ pc = "done"
    /\ last.action = "putDoc"
    /\ last.op = "put_doc"

Primitive(schema) ==
    /\ schema.enum = <<>>
    /\ schema.props = {}
    /\ schema.union = "none"

\* The field type the type keyword stands for: object a generic map, array a
\* sequence of the compiled item type, a missing or unknown keyword String.
KeywordType(schema) ==
    CASE schema.type = "string" -> StrType
      [] schema.type = "integer" -> IntType
      [] schema.type = "number" -> FloatType
      [] schema.type = "boolean" -> BoolType
      [] schema.type = "object" -> DictType
      [] schema.type = "array" ->
            ListOf(cast_to_type(IF schema.items = <<>> THEN EmptySchema
                                ELSE schema.items[1]))
      [] schema.type = "null" -> NoneType
      [] OTHER -> StrType

\* C18: a sub-schema without enum, nested properties and anyOf / oneOf
\* compiles to the field type of its type keyword.
C18_PrimitiveMapping ==
    comp.stage = "compiled" /\ Primitive(comp.schema) =>
        comp.result = KeywordType(comp.schema)

\* C19: a sub-schema that carries anyOf or oneOf compiles to a Union of the
\* compiled types of its branches, in order.
C19_UnionCompiled ==
    comp.stage = "compiled" /\ comp.schema.union # "none" /\ comp.schema.enum = <<>> =>
        comp.result =
            UnionOf([i \in 1..Len(comp.schema.branches) |->
                        cast_to_type(comp.schema.branches[i])])

\* A scanDocs or findDocs request that was routed and answered with a list.
ListRouted ==
    /\ pc = "done"
    /\ last.action \in {"scanDocs", "findDocs"}
    /\ last.op # None
    /\ last.res.kind = "List"

\* C20: a scanDocs or findDocs request with an explicit limit L, 0 included,
\* returns at most L records; a scan returns the slice of its explicit limit
\* and offset, the defaults 1000 and 0 standing in only for a parameter that
\* was not sent.
C20_ExplicitLimit ==
    ListRouted =>
        /\ last.limit # NotSent => Len(last.res.docs) <= last.limit
        /\ last.action = "scanDocs" =>
              last.res = DocList(Slice(StoreBefore, create_class("scanDocs", last.schema),
                                       IF last.limit = NotSent THEN DefaultLimit ELSE last.limit,
                                       IF last.offset = NotSent THEN DefaultOffset ELSE last.offset))

\* What count() answers on the partition of the request, now and when the
\* request arrived.
CountNow == count(StoreNow).res.n
CountBefore == count(StoreBefore).res.n

\* A put, merge or delete that reached its operation.
MutationRouted ==
    /\ pc = "done"
    /\ last.op \in {"put_doc", "merge_doc", "delete_doc"}

\* The key the mutation worked on.
MutatedKey == IF last.op = "delete_doc" THEN last.key ELSE last.dockey

\* C21: count() of a partition is the number of keys that hold a record; a
\* put on a new key raises it by one, a delete of an existing key lowers it
\* by one, and a put on an existing key, a merge (successful or failed) and
\* a delete of an absent key leave it unchanged; a routed countDocs request
\* answers that number.
C21_CountInvariant ==
    /\ \A t \in Titles : count(db[t]).res.n = Cardinality({k \in AllKeys : k \in DOMAIN db[t]})
    /\ MutationRouted =>
          CountNow =
              CASE last.op = "put_doc" /\ MutatedKey \notin DOMAIN StoreBefore -> CountBefore + 1
                [] last.op = "delete_doc" /\ MutatedKey \in DOMAIN StoreBefore -> CountBefore - 1
                [] OTHER -> CountBefore
    /\ pc = "done" /\ last.op = "count" => last.res = IntResult(CountBefore)

\* A delete of one of two records: the count goes from 2 to 1.
C21_Witness ==
    /\ MutationRouted
    /\ last.op = "delete_doc"
    /\ CountBefore = 2
    /\ CountNow = 1

\* C22: in every state and for every key, exists(key) is true exactly when
\* get(key) returns a record, whatever schema the get is sent with; get on
\* an absent key returns the empty result; after a completed put or
\* successful merge the key exists, after a delete it does not.
C22_PresenceAgreement ==
    /\ \A sc \in Schemas, k \in AllKeys :
          LET store == db[sc.title]
              g == get_doc(store, create_class("getDoc", sc), k).res
          IN  /\ exists(store, k).res.flag <=> g.kind = "Doc"
              /\ k \notin DOMAIN store => g = NoDoc
    /\ MutationRouted /\ last.res.kind = "Status" =>
          exists(StoreNow, MutatedKey).res.flag = (last.op # "delete_doc")
====
